---- MODULE Spec2Model ----
(***************************************************************************)
(* A model of the OCI FOCUS report pipeline: loadConfig (config.ts), the   *)
(* Mirror Stage syncOciToGcs (sync.ts), the Partition Stage                *)
(* reorganizeToHive (reorganize.ts) and the orchestrator main (index.ts).  *)
(*                                                                         *)
(* index.ts and sync.ts are src/unnamed/part_002, logger.ts and config.ts   *)
(* are src/unnamed/part_001; the line numbers below are those of the files. *)
(*                                                                         *)
(* Strings are sequences of one-character strings, so that the regular     *)
(* expression, parseInt, toLowerCase and the template of buildHivePath are *)
(* computed character by character.  A Date is the number of hours since   *)
(* 1970-01-01 00:00 local time.                                            *)
(***************************************************************************)
EXTENDS Integers, Sequences, FiniteSets, TLC

VARIABLES
    env,                 \* process.env: a function from the names that are set to their values
    config,              \* the Config returned by loadConfig, NoConfig before
    pc,                  \* where main() is suspended
    exitCode,            \* the status given to process.exit, NotExited while running
    runs,                \* number of process executions started so far
    clock,               \* the last reading of the wall clock (hours since the epoch)
    stagingBucketExists, \* GCS: the staging bucket exists
    hiveBucketExists,    \* GCS: the destination (hive) bucket exists
    source,              \* OCI: the set of object keys under FOCUS Reports in the source
    staging,             \* GCS: the set of object keys in the staging bucket
    hive,                \* GCS: destination objects, a function from key to content
    rcloneExit,          \* exit status of the last rclone process, NotExited before
    combinedOutput,      \* syncOciToGcs: what rclone sync printed on stdout and stderr
    syncResult,          \* main's syncResult, NoResult while unassigned
    reorganizeResult,    \* main's reorganizeResult, NoResult while unassigned
    statistics,          \* the JobStatistics printed by main, NoResult if none was printed
    listed,              \* reorganizeToHive: names of the files returned by getFiles
    parsedFiles,         \* reorganizeToHive: parsedFiles
    i,                   \* reorganizeToHive: loop index i
    filesCopied,         \* reorganizeToHive: filesCopied
    filesSkipped,        \* reorganizeToHive: filesSkipped
    filesErrored,        \* reorganizeToHive: filesErrored
    errors,              \* reorganizeToHive: errors
    progress,            \* reorganizeToHive: the counts the "Progress:" lines reported
    calls,               \* history: the calls this process made to rclone and to GCS
    writes,              \* history: number of objects written at each destination key, all runs
    faults,              \* history: number of failures of rclone and GCS calls so far
    prev                 \* history: what the previous process execution did

vars == << env, config, pc, exitCode, runs, clock, stagingBucketExists, hiveBucketExists,
           staging, hive, rcloneExit, syncResult, reorganizeResult, statistics, listed,
           parsedFiles, i, filesCopied, filesSkipped, filesErrored, errors, calls,
           writes, faults, prev, source, combinedOutput, progress >>

----------------------------------------------------------------------------
(* Bounds of the model *)

\* number of process executions (runs of main) in one behaviour
MaxRuns == 2
\* most objects the staging bucket holds
MaxStaged == 3
\* how far the wall clock advances during one behaviour, in hours
MaxClockHours == 26
\* number of calls to rclone and to GCS that fail in one behaviour
MaxFaults == 2

----------------------------------------------------------------------------
(* Characters and strings *)

Digits == {"0", "1", "2", "3", "4", "5", "6", "7", "8", "9"}

DigitValue(c) ==
    CASE c = "0" -> 0 [] c = "1" -> 1 [] c = "2" -> 2 [] c = "3" -> 3 [] c = "4" -> 4
      [] c = "5" -> 5 [] c = "6" -> 6 [] c = "7" -> 7 [] c = "8" -> 8 [] c = "9" -> 9

\* the line terminators, which the regular expression's . does not match
LineTerminators == {"\n", "\r"}

\* String.prototype.toLowerCase on one character
LowerChar(c) ==
    CASE c = "A" -> "a" [] c = "B" -> "b" [] c = "C" -> "c" [] c = "D" -> "d"
      [] c = "E" -> "e" [] c = "F" -> "f" [] c = "G" -> "g" [] c = "H" -> "h"
      [] c = "I" -> "i" [] c = "J" -> "j" [] c = "K" -> "k" [] c = "L" -> "l"
      [] c = "M" -> "m" [] c = "N" -> "n" [] c = "O" -> "o" [] c = "P" -> "p"
      [] c = "Q" -> "q" [] c = "R" -> "r" [] c = "S" -> "s" [] c = "T" -> "t"
      [] c = "U" -> "u" [] c = "V" -> "v" [] c = "W" -> "w" [] c = "X" -> "x"
      [] c = "Y" -> "y" [] c = "Z" -> "z" [] OTHER -> c

toLowerCase(s) == [k \in 1..Len(s) |-> LowerChar(s[k])]

\* parseInt of a string of decimal digits (the regular expression's \d groups, DAYS_TO_SYNC)
RECURSIVE parseInt(_)
parseInt(s) ==
    IF Len(s) = 0 THEN 0
    ELSE 10 * parseInt(SubSeq(s, 1, Len(s) - 1)) + DigitValue(s[Len(s)])

AllDigits(s) == \A k \in 1..Len(s) : s[k] \in Digits

StrTrue == <<"t","r","u","e">>
StrFalse == <<"f","a","l","s","e">>
StrIncremental == <<"i","n","c","r","e","m","e","n","t","a","l">>
StrFull == <<"f","u","l","l">>
StrSeven == <<"7">>

----------------------------------------------------------------------------
(* reorganize.ts: parseFilePath, isWithinDateRange, buildHivePath *)

ReportsPrefix == <<"F","O","C","U","S","-","R","e","p","o","r","t","s","/">>
CsvGzSuffix == <<".","c","s","v",".","g","z">>

\* mutant: the regular expression without its closing $ anchor; the greedy group then
\* stops at the last ".csv.gz" of the path
MatchesEndUnanchored(path) ==
    LET n == Len(path) IN
    /\ n >= 33
    /\ SubSeq(path, 1, 14) = ReportsPrefix
    /\ AllDigits(SubSeq(path, 15, 18)) /\ path[19] = "/"
    /\ AllDigits(SubSeq(path, 20, 21)) /\ path[22] = "/"
    /\ AllDigits(SubSeq(path, 23, 24)) /\ path[25] = "/"
    /\ \E e \in 33..n :
          /\ SubSeq(path, e - 6, e) = CsvGzSuffix
          /\ \A k \in 26..e : path[k] \notin LineTerminators

\* FILE_PATH_REGEX = /^FOCUS-Reports\/(\d{4})\/(\d{2})\/(\d{2})\/(.+\.csv\.gz)$/ matches path
FILE_PATH_REGEX(path) ==
    LET n == Len(path) IN
    /\ n >= 33
    /\ SubSeq(path, 1, 14) = ReportsPrefix
    /\ AllDigits(SubSeq(path, 15, 18)) /\ path[19] = "/"
    /\ AllDigits(SubSeq(path, 20, 21)) /\ path[22] = "/"
    /\ AllDigits(SubSeq(path, 23, 24)) /\ path[25] = "/"
    /\ SubSeq(path, n - 6, n) = CsvGzSuffix
    /\ \A k \in 26..n : path[k] \notin LineTerminators

IsLeapYear(y) == (y % 4 = 0 /\ y % 100 # 0) \/ y % 400 = 0

DaysInMonth(y, m) ==
    CASE m \in {1, 3, 5, 7, 8, 10, 12} -> 31
      [] m \in {4, 6, 9, 11} -> 30
      [] OTHER -> IF IsLeapYear(y) THEN 29 ELSE 28

\* days from 1970-01-01 to the first day of year y (y >= 1)
DaysBeforeYear(y) ==
    365 * (y - 1970) + ((y - 1) \div 4 - (y - 1) \div 100 + (y - 1) \div 400) - 477

RECURSIVE DaysBeforeMonth(_, _)
DaysBeforeMonth(y, m) ==
    IF m = 1 THEN 0 ELSE DaysBeforeMonth(y, m - 1) + DaysInMonth(y, m - 1)

\* new Date(year, monthIndex, day): local midnight, as hours since the epoch.  Years 0..99
\* mean 1900..1999, and a month index or day outside its range carries over.
NewDate(year, monthIndex, day) ==
    LET fullYear == IF year \in 0..99 THEN 1900 + year ELSE year
        y == fullYear + (monthIndex \div 12)
        m == (monthIndex % 12) + 1
    IN  24 * (DaysBeforeYear(y) + DaysBeforeMonth(y, m) + day - 1)

Null == [null |-> TRUE]

parseFilePath(path) ==
    IF ~FILE_PATH_REGEX(path) THEN Null
    ELSE LET year == SubSeq(path, 15, 18)
             month == SubSeq(path, 20, 21)
             day == SubSeq(path, 23, 24)
         IN  [ year |-> year, month |-> month, day |-> day,
               filename |-> SubSeq(path, 26, Len(path)),
               fullPath |-> path,
               date |-> NewDate(parseInt(year), parseInt(month) - 1, parseInt(day)) ]

\* the cutoffDate of isWithinDateRange: now, setDate(getDate() - daysToSync), setHours(0,0,0,0)
CutoffDate(now, daysToSync) == 24 * ((now - 24 * daysToSync) \div 24)

\* mutant: the comparison made strict
isWithinDateRangeStrict(fileDate, daysToSync, now) ==
    fileDate > CutoffDate(now, daysToSync)

isWithinDateRange(fileDate, daysToSync, now) ==
    fileDate >= CutoffDate(now, daysToSync)

YearEq == <<"y","e","a","r","=">>
MonthEq == <<"/","m","o","n","t","h","=">>
DayEq == <<"/","d","a","y","=">>

\* mutant: the month and the day change places in the template
buildHivePathDayFirst(parsed) ==
    YearEq \o parsed.year \o MonthEq \o parsed.day \o DayEq \o parsed.month
      \o <<"/">> \o parsed.filename

\* mutant: the template has no day
buildHivePathNoDay(parsed) ==
    YearEq \o parsed.year \o MonthEq \o parsed.month \o <<"/">> \o parsed.filename

\* `year=${parsed.year}/month=${parsed.month}/day=${parsed.day}/${parsed.filename}`
buildHivePath(parsed) ==
    YearEq \o parsed.year \o MonthEq \o parsed.month \o DayEq \o parsed.day
      \o <<"/">> \o parsed.filename

----------------------------------------------------------------------------
(* config.ts: loadConfig *)

RequiredNames == {"OCI_TENANCY_OCID", "GCS_STAGING_BUCKET", "GCS_HIVE_BUCKET", "GCS_PROJECT_ID"}

\* process.env[name] is undefined or the empty string
Falsy(e, name) == name \notin DOMAIN e \/ e[name] = <<>>

\* getRequiredEnv throws for one of the four required variables
getRequiredEnvThrows(e) == \E name \in RequiredNames : Falsy(e, name)

getOptionalEnv(e, name, defaultValue) ==
    IF Falsy(e, name) THEN defaultValue ELSE e[name]

\* the job part of loadConfig's result (the remote names and bucket names are not modelled)
loadConfig(e) ==
    [ syncMode |-> getOptionalEnv(e, "SYNC_MODE", StrIncremental),
      daysToSync |-> parseInt(getOptionalEnv(e, "DAYS_TO_SYNC", StrSeven)),
      dryRun |-> toLowerCase(getOptionalEnv(e, "DRY_RUN", StrFalse)) = StrTrue ]

NoConfig == [none |-> TRUE]
NoResult == [none |-> TRUE]
NotExited == -1

----------------------------------------------------------------------------
(* The objects the buckets may hold, in the order GCS lists them (by name) *)

Range(seq) == {seq[k] : k \in 1..Len(seq)}

KeyLastYear == <<"F","O","C","U","S","-","R","e","p","o","r","t","s","/","2","0","2","3","/","0","6","/","1","5","/","a",".","c","s","v",".","g","z">>
KeyOld == <<"F","O","C","U","S","-","R","e","p","o","r","t","s","/","2","0","2","4","/","0","6","/","0","7","/","a",".","c","s","v",".","g","z">>
KeyBoundary == <<"F","O","C","U","S","-","R","e","p","o","r","t","s","/","2","0","2","4","/","0","6","/","0","8","/","a",".","c","s","v",".","g","z">>
KeyTmp == <<"F","O","C","U","S","-","R","e","p","o","r","t","s","/","2","0","2","4","/","0","6","/","0","8","/","a",".","c","s","v",".","g","z",".","t","m","p">>
KeyFuture == <<"F","O","C","U","S","-","R","e","p","o","r","t","s","/","2","0","2","5","/","0","1","/","0","1","/","a",".","c","s","v",".","g","z">>

\* more objects of 2024-06-08: a name that ends in .csv.gz twice, another name, and a
\* name in a folder below the day
KeyTwice == <<"F","O","C","U","S","-","R","e","p","o","r","t","s","/","2","0","2","4","/","0","6","/","0","8","/","a",".","c","s","v",".","g","z",".","c","s","v",".","g","z">>
KeyOther == <<"F","O","C","U","S","-","R","e","p","o","r","t","s","/","2","0","2","4","/","0","6","/","0","8","/","b",".","c","s","v",".","g","z">>
KeyNested == <<"F","O","C","U","S","-","R","e","p","o","r","t","s","/","2","0","2","4","/","0","6","/","0","8","/","x","/","a",".","c","s","v",".","g","z">>

DigitChars == <<"0", "1", "2", "3", "4", "5", "6", "7", "8", "9">>

\* FOCUS-Reports/2024/06/08/<n in three digits>.csv.gz
NumberedKey(n) ==
    SubSeq(KeyBoundary, 1, 25)
      \o << DigitChars[((n \div 100) % 10) + 1], DigitChars[((n \div 10) % 10) + 1],
            DigitChars[(n % 10) + 1] >>
      \o CsvGzSuffix

\* number of objects of the long listing
LongListing == 100

\* the long listing: numbered objects of 2024-06-08, and KeyBoundary after them
NumberedKeys == [n \in 1..(LongListing - 1) |-> NumberedKey(n)]

LongStaging == Range(NumberedKeys) \cup {KeyBoundary}

AllKeys ==
    << KeyLastYear, KeyOld >> \o NumberedKeys
      \o << KeyBoundary, KeyTwice, KeyTmp, KeyOther, KeyNested, KeyFuture >>

KeySet == { KeyLastYear, KeyOld, KeyBoundary, KeyTmp, KeyFuture }

StartsWith(s, prefix) == Len(s) >= Len(prefix) /\ SubSeq(s, 1, Len(prefix)) = prefix

\* stagingBucket.getFiles({ prefix: "FOCUS-Reports/" }): the names with the prefix, sorted
getFiles(objects) ==
    SelectSeq(AllKeys, LAMBDA k : k \in objects /\ StartsWith(k, ReportsPrefix))

\* contents of the source and of the staging bucket within the bound
StagingSets == {s \in SUBSET KeySet : Cardinality(s) <= MaxStaged}

\* the wall clock at the start: 2024-06-15 13:00 local time
ClockStart == NewDate(2024, 5, 15) + 13

\* a destination object: the staged object it was copied from, whether all of it was
\* written, and the process execution that wrote it (0: before the first one)
Object(from, complete, run) == [from |-> from, complete |-> complete, run |-> run]

\* the destination key of KeyBoundary
HivePathBoundary == <<"y","e","a","r","=","2","0","2","4","/","m","o","n","t","h","=","0","6","/","d","a","y","=","0","8","/","a",".","c","s","v",".","g","z">>

\* the destination bucket at the start: empty, or holding one object that is already at
\* the destination key of KeyBoundary (when the source has KeyBoundary)
Hives == { <<>>, [path \in {HivePathBoundary} |-> Object(KeyBoundary, TRUE, 0)] }

----------------------------------------------------------------------------
(* The initial states *)

\* f extended by name |-> value
With(f, name, value) ==
    [n \in DOMAIN f \cup {name} |-> IF n = name THEN value ELSE f[n]]

SetValue == <<"x">>

RequiredEnv == [name \in RequiredNames |-> SetValue]

\* the environments a behaviour starts from: the required variables set and some of the
\* optional ones, and one with a required variable missing
Envs ==
    { RequiredEnv,
      With(RequiredEnv, "DRY_RUN", <<"T","r","u","e">>),
      With(With(RequiredEnv, "SYNC_MODE", StrFull), "DAYS_TO_SYNC", <<"0">>),
      With(With(RequiredEnv, "DRY_RUN", StrTrue), "SYNC_MODE", StrFull),
      With(RequiredEnv, "DAYS_TO_SYNC", <<"8">>),
      [n \in RequiredNames \ {"GCS_HIVE_BUCKET"} |-> SetValue] }

Init ==
    /\ env \in Envs
    /\ config = NoConfig
    /\ pc = "loadConfig"
    /\ exitCode = NotExited
    /\ runs = 1
    /\ clock = ClockStart
    /\ stagingBucketExists \in BOOLEAN
    /\ hiveBucketExists \in BOOLEAN
    /\ source \in StagingSets
    /\ staging \in {{}, source}
    /\ (~stagingBucketExists => staging = {})
    /\ hive \in Hives
    /\ (hive # <<>> => (hiveBucketExists /\ KeyBoundary \in source))
    /\ rcloneExit = NotExited
    /\ combinedOutput = <<>>
    /\ syncResult = NoResult
    /\ reorganizeResult = NoResult
    /\ statistics = NoResult
    /\ listed = <<>>
    /\ parsedFiles = <<>>
    /\ i = 0
    /\ filesCopied = 0
    /\ filesSkipped = 0
    /\ filesErrored = 0
    /\ errors = <<>>
    /\ progress = <<>>
    /\ calls = <<>>
    /\ writes = <<>>
    /\ faults = 0
    /\ prev = NoResult

----------------------------------------------------------------------------
(* index.ts: main *)

gcsVars == << stagingBucketExists, hiveBucketExists, staging, hive, writes >>
loopVars == << listed, parsedFiles, i, filesCopied, filesSkipped, filesErrored, errors,
              progress >>
runVars == << env, runs, prev, source >>

\* a call may fail while the behaviour has failures left
MayFail == faults < MaxFaults

\* one entry of the history calls: the operation, the bucket, the object keys it was
\* given and whether it returned (ok) or failed
Call(op, bucket, src, dst, ok) ==
    [op |-> op, bucket |-> bucket, src |-> src, dst |-> dst, ok |-> ok]

\* mutant: the dry-run flag is not looked at
ReorgDryRunIgnored(cfg) == FALSE

\* reorganizeToHive, lines 99 and 163: if (config.job.dryRun)
ReorgDryRun(cfg) == cfg.dryRun

\* reorganizeToHive up to its first await: checkBucketExists in a dry run (line 100),
\* ensureBucketExists otherwise (line 119)
ReorganizeEntry(cfg) == IF ReorgDryRun(cfg) THEN "checkBuckets" ELSE "ensureStaging"

\* main, lines 16-41: load the configuration, then call syncOciToGcs, which spawns rclone
LoadConfig ==
    /\ pc = "loadConfig"
    /\ IF getRequiredEnvThrows(env)
       THEN /\ config' = config
            /\ exitCode' = 1
            /\ pc' = "exited"
       ELSE /\ config' = loadConfig(env)
            /\ exitCode' = exitCode
            /\ pc' = "rclone"
    /\ UNCHANGED << gcsVars, loopVars, runVars, clock, rcloneExit, combinedOutput, syncResult,
                    reorganizeResult, statistics, calls, faults >>

\* mutant: the errors of the Partition Stage do not reach the exit status
ExitStatusAlwaysZero(result) == 0

\* main, lines 71-80: the status main exits with once both stages have returned
ExitStatus(result) == IF result.files_errored > 0 THEN 1 ELSE 0

\* mutant: the catch logs the failure of the stage and main goes on to the Partition Stage
StageThrowsAndMainGoesOn ==
    /\ exitCode' = exitCode
    /\ pc' = "ensureStaging"
    /\ statistics' = statistics

\* main, lines 42-46 and 52-56: a stage threw; main logs and exits with status 1
StageThrows ==
    /\ exitCode' = 1
    /\ pc' = "exited"
    /\ statistics' = statistics

\* main, lines 51 and 58-80: reorganizeToHive returned result; main prints the
\* statistics and exits
ReorganizeReturns(result) ==
    /\ reorganizeResult' = result
    /\ statistics' = [sync |-> syncResult, reorganize |-> result]
    /\ exitCode' = ExitStatus(result)
    /\ pc' = "exited"

\* the next execution of the job: a new process with the same environment.  prev keeps
\* the last execution of the Partition Stage that returned.
StartRun ==
    /\ pc \in {"exited", "killed"}
    /\ runs < MaxRuns
    /\ runs' = runs + 1
    /\ prev' = IF reorganizeResult = NoResult THEN prev
               ELSE [ config |-> config, result |-> reorganizeResult, listed |-> listed,
                      retained |-> [k \in 1..Len(parsedFiles) |-> parsedFiles[k].fullPath],
                      errored |-> [k \in 1..Len(errors) |-> errors[k].path],
                      clock |-> clock ]
    /\ config' = NoConfig
    /\ pc' = "loadConfig"
    /\ exitCode' = NotExited
    /\ rcloneExit' = NotExited
    /\ combinedOutput' = <<>>
    /\ syncResult' = NoResult
    /\ reorganizeResult' = NoResult
    /\ statistics' = NoResult
    /\ listed' = <<>>
    /\ parsedFiles' = <<>>
    /\ i' = 0
    /\ filesCopied' = 0
    /\ filesSkipped' = 0
    /\ filesErrored' = 0
    /\ errors' = <<>>
    /\ progress' = <<>>
    /\ calls' = <<>>
    /\ UNCHANGED << gcsVars, env, source, clock, faults >>

----------------------------------------------------------------------------
(* sync.ts: parseRcloneOutput *)

\* the characters \s matches, among those of the model's texts
WhiteSpace == {" ", "\t", "\n", "\r"}

\* String.prototype.toUpperCase on one character
UpperChar(c) ==
    CASE c = "a" -> "A" [] c = "b" -> "B" [] c = "c" -> "C" [] c = "d" -> "D"
      [] c = "e" -> "E" [] c = "f" -> "F" [] c = "g" -> "G" [] c = "h" -> "H"
      [] c = "i" -> "I" [] c = "j" -> "J" [] c = "k" -> "K" [] c = "l" -> "L"
      [] c = "m" -> "M" [] c = "n" -> "N" [] c = "o" -> "O" [] c = "p" -> "P"
      [] c = "q" -> "Q" [] c = "r" -> "R" [] c = "s" -> "S" [] c = "t" -> "T"
      [] c = "u" -> "U" [] c = "v" -> "V" [] c = "w" -> "W" [] c = "x" -> "X"
      [] c = "y" -> "Y" [] c = "z" -> "Z" [] OTHER -> c

toUpperCase(s) == [k \in 1..Len(s) |-> UpperChar(s[k])]

\* the text lit is in s at position p
HasAt(s, p, lit) == p + Len(lit) - 1 <= Len(s) /\ SubSeq(s, p, p + Len(lit) - 1) = lit

\* String.prototype.includes
Includes(s, lit) == \E p \in 1..(Len(s) + 1) : HasAt(s, p, lit)

\* a greedy repetition of a character class from position p: the position after it
RECURSIVE SkipClass(_, _, _)
SkipClass(s, p, class) ==
    IF p <= Len(s) /\ s[p] \in class THEN SkipClass(s, p + 1, class) ELSE p

\* output.split("\n")
RECURSIVE Split(_)
Split(s) ==
    LET breaks == {k \in 1..Len(s) : s[k] = "\n"}
    IN  IF breaks = {} THEN << s >>
        ELSE LET p == CHOOSE k \in breaks : \A j \in breaks : k <= j
             IN  << SubSeq(s, 1, p - 1) >> \o Split(SubSeq(s, p + 1, Len(s)))

TransferredColon == <<"T","r","a","n","s","f","e","r","r","e","d",":">>

\* /Transferred:\s+(\d+)\s*\/\s*(\d+),\s*(\d+)%/ tried at position p: its groups, or Null
TransferredMatchAt(s, p) ==
    LET a == p + Len(TransferredColon)
        b == SkipClass(s, a, WhiteSpace)
        c == SkipClass(s, b, Digits)
        d == SkipClass(s, c, WhiteSpace)
        e == SkipClass(s, d + 1, WhiteSpace)
        f == SkipClass(s, e, Digits)
        g == SkipClass(s, f + 1, WhiteSpace)
        h == SkipClass(s, g, Digits)
    IN  IF /\ HasAt(s, p, TransferredColon)
           /\ b > a /\ c > b
           /\ HasAt(s, d, <<"/">>)
           /\ f > e
           /\ HasAt(s, f, <<",">>)
           /\ h > g
           /\ HasAt(s, h, <<"%">>)
        THEN [g1 |-> SubSeq(s, b, c - 1), g2 |-> SubSeq(s, e, f - 1), g3 |-> SubSeq(s, g, h - 1)]
        ELSE Null

\* /Transferred:\s+([\d.]+)\s*([KMGT]?i?B)/i tried at position p: its groups, or Null
BytesMatchAt(s, p) ==
    LET a == p + Len(TransferredColon)
        b == SkipClass(s, a, WhiteSpace)
        c == SkipClass(s, b, Digits \cup {"."})
        d == SkipClass(s, c, WhiteSpace)
        e == IF d <= Len(s) /\ UpperChar(s[d]) \in {"K", "M", "G", "T"} THEN d + 1 ELSE d
        f == IF e <= Len(s) /\ UpperChar(s[e]) = "I" THEN e + 1 ELSE e
    IN  IF /\ a - 1 <= Len(s)
           /\ toUpperCase(SubSeq(s, p, a - 1)) = toUpperCase(TransferredColon)
           /\ b > a /\ c > b
           /\ f <= Len(s) /\ UpperChar(s[f]) = "B"
        THEN [g1 |-> SubSeq(s, b, c - 1), g2 |-> SubSeq(s, d, f)]
        ELSE Null

\* String.prototype.match without the g flag: the leftmost match, or Null; tries[p] is
\* what the pattern gives when tried at position p
Match(tries) ==
    LET starts == {p \in DOMAIN tries : tries[p] # Null}
    IN  IF starts = {} THEN Null
        ELSE tries[CHOOSE p \in starts : \A q \in starts : p <= q]

\* a Number: NaN, or whole + num/den with 0 <= num < den
Number(whole, num, den) == [nan |-> FALSE, whole |-> whole, num |-> num, den |-> den]
NaNNumber == [nan |-> TRUE, whole |-> 0, num |-> 0, den |-> 1]

RECURSIVE Pow10(_)
Pow10(n) == IF n = 0 THEN 1 ELSE 10 * Pow10(n - 1)

\* parseFloat of a text of digits and dots: the longest prefix digits[.digits] that has a
\* digit; NaN if there is none
parseFloat(s) ==
    LET a == SkipClass(s, 1, Digits)
        b == IF HasAt(s, a, <<".">>) THEN SkipClass(s, a + 1, Digits) ELSE a
        int == SubSeq(s, 1, a - 1)
        frac == SubSeq(s, a + 1, b - 1)
    IN  IF int = <<>> /\ frac = <<>> THEN NaNNumber
        ELSE Number(parseInt(int), parseInt(frac), Pow10(Len(frac)))

\* bytes *= k
Times(x, k) ==
    IF x.nan THEN x
    ELSE Number(x.whole * k + (x.num * k) \div x.den, (x.num * k) % x.den, x.den)

\* the result of Math.round(NaN)
NaN == -1

\* mutant: the fraction is cut off
MathFloor(x) == IF x.nan THEN NaN ELSE x.whole

\* Math.round: the nearest integer, halves upwards
MathRound(x) ==
    IF x.nan THEN NaN ELSE x.whole + (IF 2 * x.num >= x.den THEN 1 ELSE 0)

\* lines 151-154: the number of factors 1024 for the unit, by the first of K, M, G, T
\* that it includes
UnitSteps(unit) ==
    IF Includes(unit, <<"K">>) THEN 1
    ELSE IF Includes(unit, <<"M">>) THEN 2
    ELSE IF Includes(unit, <<"G">>) THEN 3
    ELSE IF Includes(unit, <<"T">>) THEN 4
    ELSE 0

RECURSIVE TimesSteps(_, _)
TimesSteps(x, steps) ==
    IF steps = 0 THEN x ELSE TimesSteps(Times(x, 1024), steps - 1)

\* lines 145-156: the bytes of the match of the second pattern
BytesOf(bytesMatch) ==
    MathRound(TimesSteps(parseFloat(bytesMatch.g1), UnitSteps(toUpperCase(bytesMatch.g2))))

\* the name of a property as a field name
RECURSIVE FieldName(_)
FieldName(s) == IF s = <<>> THEN "" ELSE FieldName(SubSeq(s, 1, Len(s) - 1)) \o s[Len(s)]

\* JSON.parse, for the texts of the model: objects, strings without escapes and
\* non-negative integers, without white space between the tokens.  A result is
\* [ok, value, next]: whether a value was read at position p, the value, and the
\* position after it.
JsonFail == [ok |-> FALSE, value |-> 0, next |-> 0]

JsonString(s, p) ==
    LET closing == {q \in (p + 1)..Len(s) : s[q] = "\""}
    IN  IF ~HasAt(s, p, <<"\"">>) \/ closing = {} THEN JsonFail
        ELSE LET q == CHOOSE k \in closing : \A j \in closing : k <= j
             IN  IF \E k \in (p + 1)..(q - 1) : s[k] \in {"\\", "\n", "\t", "\r"}
                 THEN JsonFail
                 ELSE [ok |-> TRUE, value |-> SubSeq(s, p + 1, q - 1), next |-> q + 1]

\* a number: digits, and a fraction if there is one (then the value is a Number)
JsonNumber(s, p) ==
    LET q == SkipClass(s, p, Digits)
        r == IF HasAt(s, q, <<".">>) THEN SkipClass(s, q + 1, Digits) ELSE q
    IN  IF q = p \/ (q > p + 1 /\ s[p] = "0") \/ r = q + 1 THEN JsonFail
        ELSE [ ok |-> TRUE,
               value |-> IF r = q THEN parseInt(SubSeq(s, p, q - 1))
                         ELSE parseFloat(SubSeq(s, p, r - 1)),
               next |-> r ]

RECURSIVE JsonValue(_, _)
RECURSIVE JsonMembers(_, _, _)

JsonValue(s, p) ==
    IF HasAt(s, p, <<"{", "}">>) THEN [ok |-> TRUE, value |-> <<>>, next |-> p + 2]
    ELSE IF HasAt(s, p, <<"{">>) THEN JsonMembers(s, p + 1, <<>>)
    ELSE IF HasAt(s, p, <<"\"">>) THEN JsonString(s, p)
    ELSE JsonNumber(s, p)

\* the members of an object from position p on, object holding those before; a name
\* that comes twice keeps its last value
JsonMembers(s, p, object) ==
    LET name == JsonString(s, p)
        member == JsonValue(s, name.next + 1)
        read == With(object, FieldName(name.value), member.value)
    IN  IF ~name.ok \/ ~HasAt(s, name.next, <<":">>) THEN JsonFail
        ELSE IF ~member.ok THEN JsonFail
        ELSE IF HasAt(s, member.next, <<",">>) THEN JsonMembers(s, member.next + 1, read)
        ELSE IF HasAt(s, member.next, <<"}">>)
        THEN [ok |-> TRUE, value |-> read, next |-> member.next + 1]
        ELSE JsonFail

\* JSON.parse(line): ok is FALSE where it throws
JSONParse(line) ==
    LET read == JsonValue(line, 1)
    IN  IF read.ok /\ read.next = Len(line) + 1 THEN read ELSE JsonFail

QuotedTransfers == <<"\"","t","r","a","n","s","f","e","r","s","\"">>
QuotedBytes == <<"\"","b","y","t","e","s","\"">>

\* mutant: no line is tried as JSON
StructuredLinesNone(output) == <<>>

\* lines 124-134: the lines that have both names and that JSON.parse reads
StructuredLines(output) ==
    SelectSeq(Split(output),
              LAMBDA line : /\ Includes(line, QuotedTransfers)
                            /\ Includes(line, QuotedBytes)
                            /\ JSONParse(line).ok)

\* lines 136-158: the statistics read from the text of the output
TextStats(output) ==
    LET transferredMatch == Match([p \in 1..Len(output) |-> TransferredMatchAt(output, p)])
        bytesMatch == Match([p \in 1..Len(output) |-> BytesMatchAt(output, p)])
        counts == IF transferredMatch = Null THEN <<>>
                  ELSE [ transfers |-> parseInt(transferredMatch.g1),
                         totalTransfers |-> parseInt(transferredMatch.g2) ]
    IN  IF bytesMatch = Null THEN counts ELSE With(counts, "bytes", BytesOf(bytesMatch))

\* mutant: the text supplies the fields that the structured line does not have
parseRcloneOutputPerField(output) ==
    LET structured == StructuredLines(output)
        json == IF structured # <<>> THEN JSONParse(structured[1]).value ELSE <<>>
        text == TextStats(output)
    IN  [ field \in DOMAIN json \cup DOMAIN text |->
            IF field \in DOMAIN json THEN json[field] ELSE text[field] ]

\* parseRcloneOutput: the first structured line if there is one, the text otherwise
parseRcloneOutput(output) ==
    LET structured == StructuredLines(output)
    IN  IF structured # <<>> THEN JSONParse(structured[1]).value ELSE TextStats(output)

----------------------------------------------------------------------------
(* What rclone sync may print: a line of JSON, the line with the bytes and the line with
   the transfers, as stdout, and nothing on stderr *)

NoLine == <<>>

JsonBoth == <<"{","\"","b","y","t","e","s","\"",":","2","0","4","8",",","\"","t","r","a","n","s","f","e","r","s","\"",":","3","}">>
JsonZero == <<"{","\"","b","y","t","e","s","\"",":","0",",","\"","t","r","a","n","s","f","e","r","s","\"",":","0","}">>
JsonNested == <<"{","\"","l","e","v","e","l","\"",":","\"","i","n","f","o","\"",",","\"","m","s","g","\"",":","\"","s","t","a","t","s","\"",",","\"","s","t","a","t","s","\"",":","{","\"","b","y","t","e","s","\"",":","2","0","4","8",",","\"","s","p","e","e","d","\"",":","1",".","5",",","\"","t","r","a","n","s","f","e","r","s","\"",":","3","}","}">>
JsonLacksBytes == <<"{","\"","t","r","a","n","s","f","e","r","s","\"",":","3",",","\"","l","a","s","t","\"",":","{","\"","b","y","t","e","s","\"",":","1","0","2","4","}","}">>
JsonLacksTransfers == <<"{","\"","b","y","t","e","s","\"",":","2","0","4","8",",","\"","l","a","s","t","\"",":","{","\"","t","r","a","n","s","f","e","r","s","\"",":","1","}","}">>
JsonTruncated == <<"{","\"","b","y","t","e","s","\"",":","2","0","4","8",",","\"","t","r","a","n","s","f","e","r","s","\"",":">>
JsonOnlyTransfers == <<"{","\"","t","r","a","n","s","f","e","r","s","\"",":","3","}">>

JsonLines == { NoLine, JsonBoth, JsonZero, JsonNested, JsonLacksBytes, JsonLacksTransfers,
               JsonTruncated, JsonOnlyTransfers }

CountLine == <<"T","r","a","n","s","f","e","r","r","e","d",":"," "," "," ","5"," ","/"," ","7",","," ","7","1","%">>
CountLineNoPercent == <<"T","r","a","n","s","f","e","r","r","e","d",":"," ","5"," ","/"," ","7">>

CountLines == { NoLine, CountLine, CountLineNoPercent }

Numerals == { <<"1",".","5">>, <<"0",".","5">>, <<"2",".","4">>, <<"1">>, <<"0",".","0","0","1">>, <<"1","2",".">> }
SmallNumerals == { <<"1",".","5">>, <<"0",".","5">>, <<"1">>, <<"0",".","0","0","1">> }
TinyNumerals == { <<"0",".","0","0","1">> }
NotNumerals == { <<".">>, <<"1",".","2",".","3">>, <<".",".","5">> }
UnitsToMega == { <<"B">>, <<"K","B">>, <<"K","i","B">>, <<"k","b">>, <<"M","B">>, <<"M","i","B">>, <<"M","i","b">> }
UnitsGiga == { <<"G","B">>, <<"G","i","B">>, <<"g","i","b">> }
UnitsTera == { <<"T","B">>, <<"T","i","B">> }

\* the numeral and unit pairs whose number of bytes is below 2^31
ByteQuantities ==
    (Numerals \X UnitsToMega) \cup (SmallNumerals \X UnitsGiga)
       \cup (TinyNumerals \X UnitsTera) \cup (NotNumerals \X {<<"K","i","B">>})

\* "Transferred:", white space, the numeral, a space or nothing, and the unit
ByteLine(quantity, space) ==
    TransferredColon \o <<" ">> \o quantity[1] \o space \o quantity[2]

ByteLines ==
    {NoLine} \cup {ByteLine(q, <<" ">>) : q \in ByteQuantities}
       \cup {ByteLine(q, <<>>) : q \in SmallNumerals \X UnitsGiga}
       \cup { <<"T","r","a","n","s","f","e","r","r","e","d",":","1",".","5"," ","K","i","B">>, <<"t","r","a","n","s","f","e","r","r","e","d",":"," ","1",".","5"," ","k","B">>, <<"T","r","a","n","s","f","e","r","r","e","d",":"," ","1",".","5"," ","K">>, <<"T","r","a","n","s","f","e","r","r","e","d",":"," ","1","5"," ","B","y","t","e","s">> }

\* stdout + "\n" + stderr (line 251), stdout being the three lines
Compose(json, bytes, count) ==
    json \o <<"\n">> \o bytes \o <<"\n">> \o count \o <<"\n">> \o <<"\n">>

\* the output of rclone sync in the runs of main
LiveOutputs ==
    { Compose(NoLine, ByteLine(<< <<"1",".","5">>, <<"K","i","B">> >>, <<" ">>), CountLine) }

\* what a failing rclone sync prints
FailureOutput == <<"\n">> \o <<"E","R","R","O","R"," ",":"," ","F","a","i","l","e","d"," ","t","o"," ","s","y","n","c">> \o <<"\n">>

\* the outputs parseRcloneOutput is applied to on its own
ParseOutputs == {Compose(j, b, c) : j \in JsonLines, b \in ByteLines, c \in CountLines}

----------------------------------------------------------------------------
(* sync.ts: syncOciToGcs *)

\* mutant: only exit statuses above 1 are taken for failures
SyncThrowsAboveOne(code) == code > 1

\* exitCode !== 0 (lines 202 and 253)
SyncThrows(code) == code # 0

\* stats.transfers || 0 and stats.bytes || 0 (lines 260-261): 0 for undefined, 0 and NaN
OrZero(stats, field) ==
    IF field \in DOMAIN stats /\ stats[field] \notin {0, NaN} THEN stats[field] ELSE 0

\* lines 259-261 and 270-274: the SyncResult made of the output of rclone sync
SyncResultOf(output) ==
    LET stats == parseRcloneOutput(output)
    IN  [ files_transferred |-> OrZero(stats, "transfers"),
          bytes_transferred |-> OrZero(stats, "bytes") ]

\* mutant: the dry-run flag is not looked at
SyncDryRunIgnored(cfg) == FALSE

\* syncOciToGcs, line 179: if (config.job.dryRun)
SyncIsDryRun(cfg) == cfg.dryRun

\* dry run, lines 179-222: rclone lsf lists the source; nothing is transferred
SyncDryRun ==
    /\ pc = "rclone"
    /\ SyncIsDryRun(config)
    /\ \E code \in {0, 1} :
          /\ code # 0 => MayFail
          /\ faults' = faults + (IF code # 0 THEN 1 ELSE 0)
          /\ rcloneExit' = code
          /\ calls' = Append(calls, Call("rclone lsf", "source", <<>>, <<>>, code = 0))
          /\ IF SyncThrows(code)
             THEN /\ StageThrows
                  /\ syncResult' = syncResult
             ELSE /\ syncResult' = [files_transferred |-> 0, bytes_transferred |-> 0]
                  /\ pc' = ReorganizeEntry(config)
                  /\ UNCHANGED << exitCode, statistics >>
    /\ UNCHANGED << gcsVars, loopVars, runVars, config, clock, reorganizeResult,
                    combinedOutput >>

\* live, lines 224-275: rclone sync makes FOCUS-Reports in the staging bucket what the
\* source holds and prints one of outputs; a failed rclone stopped before or after the
\* transfer
SyncLiveWith(outputs) ==
    /\ pc = "rclone"
    /\ ~SyncIsDryRun(config)
    /\ \E code \in {0, 1}, transferred \in {staging, source},
          output \in outputs \cup {FailureOutput} :
          /\ output = FailureOutput <=> code # 0
          /\ combinedOutput' = output
          /\ code # 0 => MayFail
          /\ code = 0 => transferred = source
          /\ faults' = faults + (IF code # 0 THEN 1 ELSE 0)
          /\ rcloneExit' = code
          /\ calls' = Append(calls, Call("rclone sync", "staging", <<>>, <<>>, code = 0))
          /\ staging' = transferred
          /\ stagingBucketExists' = (stagingBucketExists \/ transferred # {})
          /\ IF SyncThrows(code)
             THEN /\ StageThrows
                  /\ syncResult' = syncResult
             ELSE /\ syncResult' = SyncResultOf(output)
                  /\ pc' = ReorganizeEntry(config)
                  /\ UNCHANGED << exitCode, statistics >>
    /\ UNCHANGED << hiveBucketExists, hive, writes, loopVars, runVars, config, clock,
                    reorganizeResult >>

SyncLive == SyncLiveWith(LiveOutputs)

----------------------------------------------------------------------------
(* reorganize.ts: reorganizeToHive *)

BucketExists(bucket) ==
    IF bucket = "staging" THEN stagingBucketExists ELSE hiveBucketExists

\* the result returned at lines 241-247 (and at 106-112 and 173-179 with counters at 0);
\* duration_seconds, the time the stage took, is left out
Result(processed, copied, skipped, errored) ==
    [ files_processed |-> processed, files_copied |-> copied,
      files_skipped |-> skipped, files_errored |-> errored ]

\* mutant: the dry run also returns early when the destination bucket is missing
CannotListEither(stagingExists, hiveExists) == ~stagingExists \/ ~hiveExists

\* line 103: if (!stagingExists), the dry run returns without listing
CannotList(stagingExists, hiveExists) == ~stagingExists

\* dry run, lines 99-116: checkBucketExists on both buckets; either call may throw
ReorgCheckBuckets ==
    /\ pc = "checkBuckets"
    /\ \E throws \in {"none", "staging", "hive"} :
          /\ throws # "none" => MayFail
          /\ faults' = faults + (IF throws # "none" THEN 1 ELSE 0)
          /\ calls' = calls \o
                (IF throws = "staging"
                 THEN << Call("bucket.exists", "staging", <<>>, <<>>, FALSE) >>
                 ELSE << Call("bucket.exists", "staging", <<>>, <<>>, TRUE),
                         Call("bucket.exists", "hive", <<>>, <<>>, throws = "none") >>)
          /\ IF throws # "none"
             THEN /\ StageThrows
                  /\ reorganizeResult' = reorganizeResult
             ELSE IF CannotList(BucketExists("staging"), BucketExists("hive"))
             THEN ReorganizeReturns(Result(0, 0, 0, 0))
             ELSE /\ pc' = "getFiles"
                  /\ UNCHANGED << exitCode, statistics, reorganizeResult >>
    /\ UNCHANGED << gcsVars, loopVars, runVars, config, clock, rcloneExit, combinedOutput, syncResult >>

\* mutant: the bucket is checked and never created
NeedsCreateNever(bucketExists) == FALSE

\* ensureBucketExists, line 61: if (!exists)
NeedsCreate(bucketExists) == ~bucketExists

\* ensureBucketExists, lines 53-70, for one bucket; then reorganizeToHive goes on to next
ensureBucketExists(bucket, next) ==
    \E throws \in {"none", "exists", "create"} :
       /\ throws = "create" => NeedsCreate(BucketExists(bucket))
       /\ throws # "none" => MayFail
       /\ faults' = faults + (IF throws # "none" THEN 1 ELSE 0)
       /\ calls' = calls \o
             (IF throws = "exists" \/ ~NeedsCreate(BucketExists(bucket))
              THEN << Call("bucket.exists", bucket, <<>>, <<>>, throws = "none") >>
              ELSE << Call("bucket.exists", bucket, <<>>, <<>>, TRUE),
                      Call("createBucket", bucket, <<>>, <<>>, throws = "none") >>)
       /\ IF throws # "none"
          THEN /\ StageThrows
               /\ UNCHANGED << stagingBucketExists, hiveBucketExists >>
          ELSE /\ pc' = next
               /\ stagingBucketExists' =
                     (stagingBucketExists
                        \/ (bucket = "staging" /\ NeedsCreate(stagingBucketExists)))
               /\ hiveBucketExists' =
                     (hiveBucketExists \/ (bucket = "hive" /\ NeedsCreate(hiveBucketExists)))
               /\ UNCHANGED << exitCode, statistics >>
       /\ UNCHANGED << staging, hive, writes, loopVars, runVars, config, clock, rcloneExit, combinedOutput,
                       syncResult, reorganizeResult >>

\* live, line 119
ReorgEnsureStaging ==
    /\ pc = "ensureStaging"
    /\ ensureBucketExists("staging", "ensureHive")

\* live, line 120
ReorgEnsureHive ==
    /\ pc = "ensureHive"
    /\ ensureBucketExists("hive", "getFiles")

\* mutant: the date filter is applied in every sync mode
DateFilterAlways(cfg) == TRUE

\* line 147: if (config.job.syncMode === "incremental")
DateFilterApplies(cfg) == cfg.syncMode = StrIncremental

\* lines 133-156: the files of the listing that parse and, in incremental mode, are
\* within the date range at the clock reading now
FilterFiles(listing, cfg, now) ==
    LET parsedAll == [k \in 1..Len(listing) |-> parseFilePath(listing[k])]
    IN  SelectSeq(parsedAll,
                  LAMBDA parsed :
                     /\ parsed # Null
                     /\ DateFilterApplies(cfg) =>
                           isWithinDateRange(parsed.date, cfg.daysToSync, now))

\* lines 128-186: getFiles returns (or throws), the listing is parsed and filtered; a dry
\* run returns here, and so does a live run with nothing to process
ListAndFilter ==
    /\ pc = "getFiles"
    /\ \/ /\ MayFail
          /\ faults' = faults + 1
          /\ calls' = Append(calls, Call("getFiles", "staging", <<>>, <<>>, FALSE))
          /\ StageThrows
          /\ UNCHANGED << loopVars, clock, reorganizeResult >>
       \/ \E now \in {clock, clock + 13} :
             /\ now <= ClockStart + MaxClockHours
             /\ config.syncMode # StrIncremental => now = clock
             /\ faults' = faults
             /\ calls' = Append(calls, Call("getFiles", "staging", <<>>, <<>>, TRUE))
             /\ clock' = now
             /\ listed' = getFiles(staging)
             /\ parsedFiles' = FilterFiles(listed', config, now)
             /\ UNCHANGED << i, filesCopied, filesSkipped, filesErrored, errors, progress >>
             /\ IF ReorgDryRun(config) \/ Len(parsedFiles') = 0
                THEN ReorganizeReturns(Result(Len(parsedFiles'), 0, 0, 0))
                ELSE /\ pc' = "loop"
                     /\ UNCHANGED << exitCode, statistics, reorganizeResult >>
    /\ UNCHANGED << gcsVars, runVars, config, rcloneExit, combinedOutput, syncResult >>

\* the number of objects written at key so far
Written(key) == IF key \in DOMAIN writes THEN writes[key] ELSE 0

\* mutant: the destination is never found, so every object is copied again
existsNever(objects, hivePath) == FALSE

\* mutant: an object of which only a part was written is not taken for the destination
existsComplete(objects, hivePath) ==
    hivePath \in DOMAIN objects /\ objects[hivePath].complete

\* destFile.exists(), line 195, when it returns
exists(objects, hivePath) == hivePath \in DOMAIN objects

Threw(outcome) == outcome \in {"exists throws", "copy throws", "copy throws after writing"}

\* mutant: the catch leaves the loop
AfterCatchBreaks(index, length) == length

\* lines 215-224 and 188: after the catch the loop goes on with the next file
AfterCatch(index, length) == index + 1

\* mutant: the catch counts only the failures of the copy
ErroredOnlyForCopy(outcome) == IF outcome = "copy throws" THEN 1 ELSE 0

\* line 222: filesErrored++ in the catch
Errored(outcome) == IF Threw(outcome) THEN 1 ELSE 0

\* mutant: the copy is counted as soon as the object is written, before copy() returns
CopiedWhenWritten(outcome) ==
    IF outcome \in {"copied", "copy throws after writing"} THEN 1 ELSE 0

\* line 205: filesCopied++ once copy() has returned
Copied(outcome) == IF outcome = "copied" THEN 1 ELSE 0

\* line 199: filesSkipped++ when the destination exists
Skipped(outcome) == IF outcome = "skipped" THEN 1 ELSE 0

\* line 209: if ((i + 1) % 100 === 0)
ProgressInterval == 100

\* lines 208-214: the "Progress:" line, written in the try block after the existence
\* check and the copy have returned
ReportsProgress(outcome, index) ==
    ~Threw(outcome) /\ (index + 1) % ProgressInterval = 0

\* lines 188-247: one iteration of the loop, for parsedFiles[i]; after the last one
\* reorganizeToHive returns
ProcessFile ==
    /\ pc = "loop"
    /\ i < Len(parsedFiles)
    /\ LET parsed == parsedFiles[i + 1]
           hivePath == buildHivePath(parsed)
           object == Object(parsed.fullPath, TRUE, runs)
       IN  \E outcome \in {"skipped", "copied", "exists throws", "copy throws",
                           "copy throws after writing"} :
              /\ outcome = "skipped" => exists(hive, hivePath)
              /\ outcome \notin {"skipped", "exists throws"} => ~exists(hive, hivePath)
              /\ Threw(outcome) => MayFail
              /\ faults' = faults + (IF Threw(outcome) THEN 1 ELSE 0)
              /\ calls' = calls \o
                    (IF outcome \in {"skipped", "exists throws"}
                     THEN << Call("file.exists", "hive", parsed.fullPath, hivePath,
                                  outcome = "skipped") >>
                     ELSE << Call("file.exists", "hive", parsed.fullPath, hivePath, TRUE),
                             Call("file.copy", "hive", parsed.fullPath, hivePath,
                                  outcome = "copied") >>)
              /\ hive' = IF outcome \in {"copied", "copy throws after writing"}
                         THEN With(hive, hivePath, object) ELSE hive
              /\ writes' = IF outcome \in {"copied", "copy throws after writing"}
                           THEN With(writes, hivePath, Written(hivePath) + 1) ELSE writes
              /\ filesSkipped' = filesSkipped + Skipped(outcome)
              /\ filesCopied' = filesCopied + Copied(outcome)
              /\ filesErrored' = filesErrored + Errored(outcome)
              /\ errors' = IF Threw(outcome)
                           THEN Append(errors, [path |-> parsed.fullPath, error |-> outcome])
                           ELSE errors
              /\ progress' = IF ReportsProgress(outcome, i) THEN Append(progress, i + 1)
                             ELSE progress
              /\ i' = IF Threw(outcome) THEN AfterCatch(i, Len(parsedFiles)) ELSE i + 1
    /\ IF i' < Len(parsedFiles)
       THEN UNCHANGED << pc, exitCode, statistics, reorganizeResult >>
       ELSE ReorganizeReturns(
               Result(Len(parsedFiles), filesCopied', filesSkipped', filesErrored'))
    /\ UNCHANGED << stagingBucketExists, hiveBucketExists, staging, listed, parsedFiles,
                    runVars, config, clock, rcloneExit, combinedOutput, syncResult >>

\* the process is killed by a termination signal while the copy of parsedFiles[i] is in
\* flight (line 203): the destination holds nothing, a part or all of the object, and
\* main never reaches process.exit
KilledInCopy ==
    /\ pc = "loop"
    /\ i < Len(parsedFiles)
    /\ MayFail
    /\ LET parsed == parsedFiles[i + 1]
           hivePath == buildHivePath(parsed)
       IN  /\ ~exists(hive, hivePath)
           /\ calls' = calls \o
                 << Call("file.exists", "hive", parsed.fullPath, hivePath, TRUE),
                    Call("file.copy", "hive", parsed.fullPath, hivePath, FALSE) >>
           /\ \E left \in {"nothing", "part", "all"} :
                 /\ hive' = IF left = "nothing" THEN hive
                            ELSE With(hive, hivePath,
                                      Object(parsed.fullPath, left = "all", runs))
                 /\ writes' = IF left = "nothing" THEN writes
                              ELSE With(writes, hivePath, Written(hivePath) + 1)
    /\ faults' = faults + 1
    /\ pc' = "killed"
    /\ UNCHANGED << stagingBucketExists, hiveBucketExists, staging, loopVars, runVars,
                    config, clock, rcloneExit, combinedOutput, syncResult,
                    reorganizeResult, statistics, exitCode >>

----------------------------------------------------------------------------

Next ==
    \/ LoadConfig
    \/ SyncDryRun
    \/ SyncLive
    \/ ReorgCheckBuckets
    \/ ReorgEnsureStaging
    \/ ReorgEnsureHive
    \/ ListAndFilter
    \/ ProcessFile
    \/ KilledInCopy
    \/ StartRun

Spec == Init /\ [][Next]_vars

----------------------------------------------------------------------------
(* parseRcloneOutput on its own: main has loaded the configuration of a live run and
   calls syncOciToGcs, and rclone sync prints any of ParseOutputs *)

ParseInit ==
    /\ env = RequiredEnv
    /\ config = loadConfig(RequiredEnv)
    /\ pc = "rclone"
    /\ exitCode = NotExited
    /\ runs = 1
    /\ clock = ClockStart
    /\ stagingBucketExists = TRUE
    /\ hiveBucketExists = TRUE
    /\ source = {KeyBoundary}
    /\ staging = {}
    /\ hive = <<>>
    /\ rcloneExit = NotExited
    /\ combinedOutput = <<>>
    /\ syncResult = NoResult
    /\ reorganizeResult = NoResult
    /\ statistics = NoResult
    /\ listed = <<>>
    /\ parsedFiles = <<>>
    /\ i = 0
    /\ filesCopied = 0
    /\ filesSkipped = 0
    /\ filesErrored = 0
    /\ errors = <<>>
    /\ progress = <<>>
    /\ calls = <<>>
    /\ writes = <<>>
    /\ faults = 0
    /\ prev = NoResult

ParseNext == SyncLiveWith(ParseOutputs)

ParseSpec == ParseInit /\ [][ParseNext]_vars

----------------------------------------------------------------------------
(* reorganizeToHive on its own: the Mirror Stage of a live run has returned, the staging
   bucket holds what the source holds, and main calls reorganizeToHive *)

\* the objects of the staging bucket: up to MaxStaged keys, among them keys of one day
\* and keys of one name
PartitionKeys == { KeyOld, KeyBoundary, KeyTwice, KeyTmp, KeyOther, KeyNested }

PartitionStagings == {s \in SUBSET PartitionKeys : Cardinality(s) <= MaxStaged}

\* live runs in incremental and in full mode
PartitionEnvs ==
    { RequiredEnv,
      With(With(RequiredEnv, "SYNC_MODE", StrFull), "DAYS_TO_SYNC", <<"0">>) }

PartitionInit ==
    /\ env \in PartitionEnvs
    /\ config = loadConfig(env)
    /\ pc = ReorganizeEntry(config)
    /\ exitCode = NotExited
    /\ runs = 1
    /\ clock = ClockStart
    /\ source \in PartitionStagings
    /\ staging = source
    /\ stagingBucketExists \in BOOLEAN
    /\ (staging # {} => stagingBucketExists)
    /\ hiveBucketExists \in BOOLEAN
    /\ hive \in Hives
    /\ (hive # <<>> => (hiveBucketExists /\ KeyBoundary \in source))
    /\ rcloneExit = 0
    /\ combinedOutput \in LiveOutputs
    /\ syncResult = SyncResultOf(combinedOutput)
    /\ reorganizeResult = NoResult
    /\ statistics = NoResult
    /\ listed = <<>>
    /\ parsedFiles = <<>>
    /\ i = 0
    /\ filesCopied = 0
    /\ filesSkipped = 0
    /\ filesErrored = 0
    /\ errors = <<>>
    /\ progress = <<>>
    /\ calls = << Call("rclone sync", "staging", <<>>, <<>>, TRUE) >>
    /\ writes = <<>>
    /\ faults = 0
    /\ prev = NoResult

PartitionNext ==
    \/ ReorgEnsureStaging
    \/ ReorgEnsureHive
    \/ ListAndFilter
    \/ ProcessFile
    \/ KilledInCopy

PartitionSpec == PartitionInit /\ [][PartitionNext]_vars

----------------------------------------------------------------------------
(* reorganizeToHive on a long listing: as above in incremental mode, with LongListing
   objects in the staging bucket, both buckets there, and at most one failing call *)

ProgressInit ==
    /\ env = RequiredEnv
    /\ config = loadConfig(env)
    /\ pc = ReorganizeEntry(config)
    /\ exitCode = NotExited
    /\ runs = 1
    /\ clock = ClockStart
    /\ source = LongStaging
    /\ staging = source
    /\ stagingBucketExists = TRUE
    /\ hiveBucketExists = TRUE
    /\ hive \in Hives
    /\ rcloneExit = 0
    /\ combinedOutput \in LiveOutputs
    /\ syncResult = SyncResultOf(combinedOutput)
    /\ reorganizeResult = NoResult
    /\ statistics = NoResult
    /\ listed = <<>>
    /\ parsedFiles = <<>>
    /\ i = 0
    /\ filesCopied = 0
    /\ filesSkipped = 0
    /\ filesErrored = 0
    /\ errors = <<>>
    /\ progress = <<>>
    /\ calls = << Call("rclone sync", "staging", <<>>, <<>>, TRUE) >>
    /\ writes = <<>>
    /\ faults = MaxFaults - 1
    /\ prev = NoResult

ProgressNext ==
    \/ ReorgEnsureStaging
    \/ ReorgEnsureHive
    \/ ListAndFilter
    \/ ProcessFile
    \/ KilledInCopy

ProgressSpec == ProgressInit /\ [][ProgressNext]_vars

----------------------------------------------------------------------------
(* The specification's vocabulary, stated apart from the code's definitions *)

\* key has the structure FOCUS-Reports/<4 digits>/<2 digits>/<2 digits>/<name>.csv.gz
StagedKeyPattern(key) ==
    /\ Len(key) >= 33
    /\ key = ReportsPrefix \o SubSeq(key, 15, 18) \o <<"/">> \o SubSeq(key, 20, 21)
               \o <<"/">> \o SubSeq(key, 23, 24) \o <<"/">>
               \o SubSeq(key, 26, Len(key) - 7) \o CsvGzSuffix
    /\ \A k \in (15..18) \cup (20..21) \cup (23..24) : key[k] \in Digits

\* the day (days since 1970-01-01) a staged key is dated
KeyDay(key) ==
    NewDate(parseInt(SubSeq(key, 15, 18)), parseInt(SubSeq(key, 20, 21)) - 1,
            parseInt(SubSeq(key, 23, 24))) \div 24

\* the day of the clock reading now
Today(now) == now \div 24

\* key is retained under cfg at the clock reading now: it has the structure and, in
\* incremental mode, is dated on or after today minus daysToSync
Eligible(key, cfg, now) ==
    /\ StagedKeyPattern(key)
    /\ cfg.syncMode = StrIncremental => KeyDay(key) >= Today(now) - cfg.daysToSync

\* the partitioned key year=Y/month=M/day=D/f of a staged key FOCUS-Reports/Y/M/D/f
PartitionedKey(key) ==
    YearEq \o SubSeq(key, 15, 18) \o MonthEq \o SubSeq(key, 20, 21) \o DayEq
      \o SubSeq(key, 23, 24) \o <<"/">> \o SubSeq(key, 26, Len(key))

\* the staged keys of parsedFiles, in order
Retained == [k \in 1..Len(parsedFiles) |-> parsedFiles[k].fullPath]

FileCalls == SelectSeq(calls, LAMBDA c : c.op \in {"file.exists", "file.copy"})

PartitionCalls ==
    SelectSeq(calls, LAMBDA c : c.op \in {"bucket.exists", "createBucket", "getFiles",
                                          "file.exists", "file.copy"})

\* the staged keys the existence check was made for, in the order of the checks
Attempted ==
    LET checks == SelectSeq(calls, LAMBDA c : c.op = "file.exists")
    IN  [k \in 1..Len(checks) |-> checks[k].src]

\* the staged keys whose existence check or copy failed in this execution
Failed == {c.src : c \in {d \in Range(FileCalls) : ~d.ok}}

\* the process has exited after a live reorganizeToHive returned
LiveRunReturned == pc = "exited" /\ reorganizeResult # NoResult /\ ~config.dryRun

\* a live Partition Stage returned after an earlier one did, with the same configuration
\* and the same listing of the staging bucket
SecondRunReturned ==
    /\ LiveRunReturned
    /\ prev # NoResult
    /\ prev.config = config
    /\ prev.listed = listed

----------------------------------------------------------------------------
(* C1 *)

\* C1 as stated: the second of two live runs of the Partition Stage with the same
\* configuration and an unchanged staging set copies nothing and skips as many files
\* as the first run processed.
C1_RerunCopiesNothingSkipsAll ==
    SecondRunReturned =>
       /\ reorganizeResult.files_copied = 0
       /\ reorganizeResult.files_skipped = prev.result.files_processed

\* C1, amended: if the first run finished with files_errored = 0, the second run copies
\* nothing; if moreover the second run has no per-object error and retains the same
\* objects (full mode, or the same day), it skips as many files as the first processed.
C1_IdempotentRerun ==
    (SecondRunReturned /\ prev.result.files_errored = 0) =>
       /\ reorganizeResult.files_copied = 0
       /\ (/\ reorganizeResult.files_errored = 0
           /\ (config.syncMode # StrIncremental \/ Today(clock) = Today(prev.clock)))
          => reorganizeResult.files_skipped = prev.result.files_processed

C1_Witness ==
    /\ SecondRunReturned
    /\ prev.result = Result(2, 2, 0, 0)
    /\ reorganizeResult = Result(2, 0, 2, 0)

----------------------------------------------------------------------------
(* C2 *)

DryRunLoaded == config # NoConfig /\ config.dryRun

\* C2: a dry run of the Partition Stage creates no destination object and no bucket,
\* whatever the staging bucket holds and whichever buckets exist, and returns
\* files_copied = files_skipped = files_errored = 0 and files_processed = the number of
\* staged keys that have the structure and are in the window.
C2_DryRunNoSideEffects ==
    /\ [](DryRunLoaded =>
            /\ \A k \in 1..Len(calls) : calls[k].op \notin {"createBucket", "file.copy"}
            /\ reorganizeResult # NoResult =>
                  reorganizeResult =
                     Result(Cardinality({key \in staging : Eligible(key, config, clock)}),
                            0, 0, 0))
    /\ [][DryRunLoaded =>
            UNCHANGED << hive, writes, staging, stagingBucketExists, hiveBucketExists >>]_vars

C2_Witness ==
    /\ pc = "exited"
    /\ DryRunLoaded
    /\ ~hiveBucketExists
    /\ Cardinality(staging) = 2
    /\ reorganizeResult = Result(1, 0, 0, 0)

----------------------------------------------------------------------------
(* C3 *)

\* C3: in a live run every retained object is attempted exactly once, in listing order,
\* whichever existence checks and copies fail; the stage returns, files_errored is the
\* number of failing objects and files_processed the number of retained objects.
C3_ErrorIsolation ==
    /\ Retained = SelectSeq(listed, LAMBDA key : key \in Range(Retained))
    /\ pc = "loop" => Attempted = SubSeq(Retained, 1, i)
    /\ (pc = "exited" /\ Attempted # <<>>) =>
          /\ reorganizeResult # NoResult
          /\ Attempted = Retained
          /\ reorganizeResult.files_errored = Cardinality(Failed)
          /\ reorganizeResult.files_processed = Len(Retained)

C3_Witness ==
    /\ pc = "exited"
    /\ Len(Retained) = 3
    /\ Failed = {Retained[2]}
    /\ Attempted = Retained
    /\ reorganizeResult.files_errored = 1
    /\ reorganizeResult.files_processed = 3

----------------------------------------------------------------------------
(* C4 *)

\* no destination key is written more than once over all runs
WrittenAtMostOnce == \A key \in DOMAIN writes : writes[key] <= 1

\* after a live run without per-object error every eligible object has its destination
AllEligibleAtDestination ==
    (LiveRunReturned /\ reorganizeResult.files_errored = 0) =>
       \A key \in staging :
          Eligible(key, config, clock) => PartitionedKey(key) \in DOMAIN hive

\* C4 as stated: each eligible object is copied at most once over all live runs, an
\* object that errored in one run is retried by the next run, and after a run with
\* files_errored = 0 every eligible object has an object at its destination key.
C4_ExactlyOnceAndErroredRetried ==
    /\ WrittenAtMostOnce
    /\ SecondRunReturned => \A key \in Range(prev.errored) : key \in Range(Attempted)
    /\ AllEligibleAtDestination

\* C4, amended: as C4, the object that errored being retried by the next run if it is
\* still within that run's window.
C4_ExactlyOnceResumable ==
    /\ WrittenAtMostOnce
    /\ SecondRunReturned =>
          \A key \in Range(prev.errored) :
             Eligible(key, config, clock) => key \in Range(Attempted)
    /\ AllEligibleAtDestination

C4_Witness ==
    /\ SecondRunReturned
    /\ prev.result.files_errored = 1
    /\ Range(prev.errored) \subseteq Range(Attempted)
    /\ reorganizeResult.files_copied = 1
    /\ reorganizeResult.files_errored = 0
    /\ \A key \in Range(prev.errored) : Written(PartitionedKey(key)) = 1

----------------------------------------------------------------------------
(* C5 *)

\* C5: in incremental mode a listed key that has the structure is retained exactly when
\* it is dated on or after today minus daysToSync, future dates included; with
\* daysToSync = 7 on 2024-06-15 the key dated 2024-06-08 is retained and the one dated
\* 2024-06-07 is not.
C5_IncrementalWindow ==
    (config # NoConfig /\ config.syncMode = StrIncremental) =>
       /\ \A key \in Range(listed) :
             StagedKeyPattern(key) =>
                (key \in Range(Retained) <=>
                    KeyDay(key) >= Today(clock) - config.daysToSync)
       /\ (config.daysToSync = 7 /\ Today(clock) = NewDate(2024, 5, 15) \div 24) =>
             /\ KeyBoundary \in Range(listed) => KeyBoundary \in Range(Retained)
             /\ KeyOld \in Range(listed) => KeyOld \notin Range(Retained)
             /\ KeyFuture \in Range(listed) => KeyFuture \in Range(Retained)

C5_Witness ==
    /\ config # NoConfig
    /\ config.syncMode = StrIncremental
    /\ config.daysToSync = 7
    /\ Today(clock) = NewDate(2024, 5, 15) \div 24
    /\ listed = << KeyOld, KeyBoundary >>
    /\ Retained = << KeyBoundary >>

----------------------------------------------------------------------------
(* C6 *)

\* C6: in every mode a listed key that does not have the structure is not retained, is
\* not recorded as an error, is given to no existence check and no copy, is the origin
\* of no destination object, and does not count in files_processed.
C6_StructuralFiltering ==
    /\ \A key \in Range(listed) :
          ~StagedKeyPattern(key) =>
             /\ key \notin Range(Retained)
             /\ \A k \in 1..Len(errors) : errors[k].path # key
             /\ \A k \in 1..Len(calls) : calls[k].src # key
             /\ \A path \in DOMAIN hive : hive[path].from # key
    /\ reorganizeResult # NoResult =>
          /\ reorganizeResult.files_processed <=
                Cardinality({key \in Range(listed) : StagedKeyPattern(key)})
          /\ config.syncMode # StrIncremental =>
                reorganizeResult.files_processed =
                   Cardinality({key \in Range(listed) : StagedKeyPattern(key)})

C6_Witness ==
    /\ LiveRunReturned
    /\ listed = << KeyBoundary, KeyTmp >>
    /\ reorganizeResult = Result(1, 1, 0, 0)
    /\ DOMAIN hive = {PartitionedKey(KeyBoundary)}

----------------------------------------------------------------------------
(* C7 *)

\* a call of the Mirror Stage, or a call of the Partition Stage outside its loop, failed
HardFailure ==
    \E k \in 1..Len(calls) :
       /\ calls[k].op \notin {"file.exists", "file.copy"}
       /\ ~calls[k].ok

\* C7: the process exits non-zero whenever an object failed in the Partition Stage or a
\* stage raised; it exits zero only when both stages returned and files_errored = 0.
C7_ExitStatus ==
    pc = "exited" =>
       /\ (Failed # {} \/ HardFailure) => exitCode = 1
       /\ exitCode = 0 =>
             /\ syncResult # NoResult
             /\ reorganizeResult # NoResult
             /\ reorganizeResult.files_errored = 0

C7_Witness ==
    /\ pc = "exited"
    /\ exitCode = 1
    /\ ~HardFailure
    /\ statistics # NoResult
    /\ statistics.reorganize = Result(2, 1, 0, 1)

----------------------------------------------------------------------------
(* C8 *)

\* C8: when rclone exits non-zero, in the dry-run listing or in the live sync,
\* syncOciToGcs raises and returns no statistics; it returns counters only when rclone
\* exited with status 0.
C8_MirrorAllOrNothing ==
    /\ rcloneExit \notin {NotExited, 0} => (syncResult = NoResult /\ pc = "exited")
    /\ syncResult # NoResult => rcloneExit = 0

C8_Witness ==
    /\ rcloneExit = 1
    /\ calls[1].op = "rclone sync"
    /\ staging # {}
    /\ syncResult = NoResult

----------------------------------------------------------------------------
(* C9 *)

\* C9: the Partition Stage makes its first call only after the Mirror Stage has returned;
\* if the Mirror Stage fails, the Partition Stage makes no call, no statistics are
\* printed and the process has exited.
C9_StageOrdering ==
    /\ PartitionCalls # <<>> =>
          /\ calls[1].op \in {"rclone lsf", "rclone sync"}
          /\ calls[1].ok
          /\ rcloneExit = 0
          /\ syncResult # NoResult
    /\ pc \in {"checkBuckets", "ensureStaging", "ensureHive", "getFiles", "loop"} =>
          syncResult # NoResult
    /\ rcloneExit \notin {NotExited, 0} =>
          /\ PartitionCalls = <<>>
          /\ reorganizeResult = NoResult
          /\ statistics = NoResult
          /\ pc = "exited"

C9_Witness ==
    /\ rcloneExit = 1
    /\ calls[1].op = "rclone lsf"
    /\ Len(calls) = 1
    /\ staging # {}
    /\ pc = "exited"

----------------------------------------------------------------------------
(* C10 *)

\* C10 as documented in the README: with DRY_RUN unset the configuration has
\* dryRun = true, and the run transfers nothing and copies nothing.
C10_DryRunDefaultsToTrue ==
    (config # NoConfig /\ "DRY_RUN" \notin DOMAIN env) =>
       /\ config.dryRun
       /\ \A k \in 1..Len(calls) : calls[k].op \notin {"rclone sync", "file.copy"}

----------------------------------------------------------------------------
(* C11 *)

CopyCalls == SelectSeq(calls, LAMBDA c : c.op = "file.copy")

\* the loop of a live run is about to handle a retained object whose destination key exists
AtExistingDestination ==
    /\ pc = "loop"
    /\ i < Len(Retained)
    /\ PartitionedKey(Retained[i + 1]) \in DOMAIN hive

\* this step handles that object, issues no copy and leaves the destination as it is
HandledWithoutCopy ==
    /\ i' = i + 1
    /\ CopyCalls' = CopyCalls
    /\ hive' = hive
    /\ writes' = writes

\* C11 as stated: a retained object whose destination key exists when it is handled is
\* not copied, its destination object is left unchanged, and files_skipped grows by one.
C11_ExistingSkippedByOne ==
    [][AtExistingDestination =>
          /\ HandledWithoutCopy
          /\ filesSkipped' = filesSkipped + 1]_vars

\* C11, amended: a retained object whose destination key exists when it is handled is
\* not copied and its destination object is left unchanged; files_skipped grows by one
\* if the existence check returns, and if the check itself fails files_errored grows by
\* one instead.
C11_NeverOverwritten ==
    [][AtExistingDestination =>
          /\ HandledWithoutCopy
          /\ LET check == calls'[Len(calls')]
             IN  /\ check.op = "file.exists"
                 /\ check.src = Retained[i + 1]
                 /\ Len(calls') = Len(calls) + 1
                 /\ IF check.ok
                    THEN /\ filesSkipped' = filesSkipped + 1
                         /\ UNCHANGED << filesCopied, filesErrored >>
                    ELSE /\ filesErrored' = filesErrored + 1
                         /\ UNCHANGED << filesCopied, filesSkipped >>]_vars

\* a live run skipped KeyBoundary, whose destination was there before the first run,
\* after copying another object
C11_Witness ==
    /\ LiveRunReturned
    /\ runs = 1
    /\ HivePathBoundary \in DOMAIN hive
    /\ hive[HivePathBoundary].run = 0
    /\ reorganizeResult.files_skipped = 1
    /\ reorganizeResult.files_copied = 1
    /\ \E k \in 1..Len(calls) :
          calls[k] = Call("file.exists", "hive", KeyBoundary, HivePathBoundary, TRUE)

----------------------------------------------------------------------------
(* C12 *)

\* key is FOCUS-Reports/Y/M/D/f and path is year=Y/month=M/day=D/f, for digits Y, M, D
IsPartitionOf(path, key) ==
    LET Y == SubSeq(key, 15, 18)
        M == SubSeq(key, 20, 21)
        D == SubSeq(key, 23, 24)
        f == SubSeq(key, 26, Len(key))
    IN  /\ Len(key) > 25
        /\ AllDigits(Y) /\ AllDigits(M) /\ AllDigits(D)
        /\ key = ReportsPrefix \o Y \o <<"/">> \o M \o <<"/">> \o D \o <<"/">> \o f
        /\ path = YearEq \o Y \o MonthEq \o M \o DayEq \o D \o <<"/">> \o f

\* C12: every existence check and every copy made for a staged key FOCUS-Reports/Y/M/D/f
\* is made at the destination key year=Y/month=M/day=D/f, and so is every object a run
\* wrote, whatever the position of the key in the listing, the sync mode and the runs
\* before.
C12_PartitionKeyDeterminism ==
    /\ \A k \in 1..Len(FileCalls) : IsPartitionOf(FileCalls[k].dst, FileCalls[k].src)
    /\ \A path \in DOMAIN hive : IsPartitionOf(path, hive[path].from)

\* the second run, in incremental mode, copied at the end of its listing an object that
\* the first run failed to copy, next to one the first run wrote
C12_Witness ==
    /\ LiveRunReturned
    /\ runs = 2
    /\ config.syncMode = StrIncremental
    /\ Len(Retained) = 2
    /\ \E p1, p2 \in DOMAIN hive : hive[p1].run = 1 /\ hive[p2].run = 2
    /\ calls[Len(calls)] =
          Call("file.copy", "hive", KeyFuture, PartitionedKey(KeyFuture), TRUE)

----------------------------------------------------------------------------
(* C13 *)

\* C13: in full mode every listed key that has the structure is retained, in listing
\* order, whatever its date and whatever daysToSync is; the key dated 2023-06-15, one
\* year before the clock, is retained.
C13_FullModeIgnoresWindow ==
    (config # NoConfig /\ config.syncMode = StrFull /\ pc \in {"loop", "exited"}
       /\ \E k \in 1..Len(calls) : calls[k] = Call("getFiles", "staging", <<>>, <<>>, TRUE))
    => /\ Retained = SelectSeq(listed, StagedKeyPattern)
       /\ KeyLastYear \in Range(listed) => KeyLastYear \in Range(Retained)

\* a full run with daysToSync = 0 retained the keys dated a year and a week ago
C13_Witness ==
    /\ pc = "exited"
    /\ config # NoConfig
    /\ config.syncMode = StrFull
    /\ config.daysToSync = 0
    /\ listed = << KeyLastYear, KeyOld, KeyTmp >>
    /\ Retained = << KeyLastYear, KeyOld >>
    /\ reorganizeResult # NoResult
    /\ reorganizeResult.files_processed = 2

----------------------------------------------------------------------------
(* C14 *)

\* syncOciToGcs returned the statistics of a live transfer
SyncReturned == syncResult # NoResult /\ combinedOutput # <<>>

\* the three lines rclone printed
OutputJson == Split(combinedOutput)[1]
OutputBytes == Split(combinedOutput)[2]
OutputCount == Split(combinedOutput)[3]

\* a numeral: digits with at most one decimal point, and at least one digit
IsNumeral(text) ==
    /\ \A k \in 1..Len(text) : text[k] \in Digits \cup {"."}
    /\ Cardinality({k \in 1..Len(text) : text[k] = "."}) <= 1
    /\ \E k \in 1..Len(text) : text[k] \in Digits

\* the numeral is Mantissa / 10^Decimals
Mantissa(text) == parseInt(SelectSeq(text, LAMBDA c : c \in Digits))
Decimals(text) ==
    IF \E k \in 1..Len(text) : text[k] = "."
    THEN Len(text) - (CHOOSE k \in 1..Len(text) : text[k] = ".")
    ELSE 0

\* the place of a unit among B, KB, MB, GB, TB (KiB is KB and so on, in either case)
UnitPlace(unit) ==
    LET u == toUpperCase(unit)
    IN  CASE u = <<"B">> -> 0
          [] u \in {<<"K","B">>, <<"K","I","B">>} -> 1
          [] u \in {<<"M","B">>, <<"M","I","B">>} -> 2
          [] u \in {<<"G","B">>, <<"G","I","B">>} -> 3
          [] u \in {<<"T","B">>, <<"T","I","B">>} -> 4

\* the whole numbers of bytes nearest to the quantities in GB and TB of the model
NearestAbove ==
    [ q \in (SmallNumerals \X {3}) \cup (TinyNumerals \X {4}) |->
        CASE q = << <<"1",".","5">>, 3 >> -> 1610612736
          [] q = << <<"0",".","5">>, 3 >> -> 536870912
          [] q = << <<"1">>, 3 >> -> 1073741824
          [] q = << <<"0",".","0","0","1">>, 3 >> -> 1073742
          [] q = << <<"0",".","0","0","1">>, 4 >> -> 1099511628 ]

RECURSIVE Pow1024(_)
Pow1024(n) == IF n = 0 THEN 1 ELSE 1024 * Pow1024(n - 1)

\* bytes is the whole number nearest to numeral x 1024^place
IsNearestBytes(bytes, numeral, place) ==
    IF place >= 3 THEN bytes = NearestAbove[<< numeral, place >>]
    ELSE LET scale == Pow10(Decimals(numeral))
             exact == Mantissa(numeral) * Pow1024(place)
         IN  /\ 2 * (bytes * scale - exact) <= scale
             /\ 2 * (exact - bytes * scale) <= scale

\* C14: when the text is parsed, the quantity "<numeral><unit>" after "Transferred:" and
\* white space gives bytes_transferred = the whole number nearest to
\* numeral x 1024^place, place being 0 to 4 for B, KB, MB, GB, TB; "Transferred: 1.5 GiB"
\* gives 1610612736 = 1.5 x 1024^3.
C14_ByteUnitParsing ==
    (SyncReturned /\ StructuredLines(combinedOutput) = <<>>) =>
       /\ \A q \in ByteQuantities, space \in {<<" ">>, <<>>} :
             (OutputBytes = ByteLine(q, space) /\ IsNumeral(q[1])) =>
                IsNearestBytes(syncResult.bytes_transferred, q[1], UnitPlace(q[2]))
       /\ Includes(combinedOutput, <<"T","r","a","n","s","f","e","r","r","e","d",":"," ","1",".","5"," ","G","i","B">>) =>
             syncResult.bytes_transferred = 1024 * 1024 * 1024 + 512 * 1024 * 1024

C14_Witness ==
    /\ SyncReturned
    /\ combinedOutput = Compose(JsonTruncated, ByteLine(<< <<"1",".","5">>, <<"G","i","B">> >>, <<" ">>), CountLine)
    /\ syncResult.bytes_transferred = 1610612736
    /\ syncResult.files_transferred = 5

----------------------------------------------------------------------------
(* C15 *)

\* C15: with dryRun set, the Mirror Stage calls rclone lsf on the source and never rclone
\* sync, no step changes the staging bucket, and when the listing succeeds the stage
\* returns files_transferred = 0 and bytes_transferred = 0, whatever the source holds.
C15_MirrorDryRun ==
    /\ [](DryRunLoaded =>
            /\ \A k \in 1..Len(calls) : calls[k].op # "rclone sync"
            /\ combinedOutput = <<>>
            /\ syncResult # NoResult =>
                  /\ calls[1] = Call("rclone lsf", "source", <<>>, <<>>, TRUE)
                  /\ syncResult = [files_transferred |-> 0, bytes_transferred |-> 0])
    /\ [][DryRunLoaded => UNCHANGED << staging, stagingBucketExists >>]_vars

\* a dry run listed a source of three objects that the staging bucket does not hold
C15_Witness ==
    /\ DryRunLoaded
    /\ Cardinality(source) = 3
    /\ staging = {}
    /\ pc = "exited"
    /\ statistics # NoResult
    /\ statistics.sync = [files_transferred |-> 0, bytes_transferred |-> 0]

----------------------------------------------------------------------------
(* C16 *)

\* the transfer count and the byte count a structured line of the model gives: the
\* members transfers and bytes of the object it denotes
StructuredYield(json) ==
    CASE json = JsonBoth -> [transfers |-> 3, bytes |-> 2048]
      [] json = JsonZero -> [transfers |-> 0, bytes |-> 0]
      [] json = JsonLacksBytes -> [transfers |-> 3]
      [] json = JsonLacksTransfers -> [bytes |-> 2048]
      [] json = JsonNested -> <<>>

\* the lines of the model that are JSON and name both transfers and bytes
StructuredJson == {JsonBoth, JsonZero, JsonLacksBytes, JsonLacksTransfers, JsonNested}

\* the lines with a numeral and a unit, and the number of bytes of each
QuantityLines ==
    {<< ByteLine(q, space), q >> : q \in {p \in ByteQuantities : IsNumeral(p[1])},
                                  space \in {<<" ">>, <<>>}}

\* the text gives bytes for the byte count: the line with the bytes has a numeral and a
\* unit of which bytes is the number of bytes
TextYieldsBytes(bytes) ==
    \E l \in QuantityLines :
       /\ OutputBytes = l[1]
       /\ IsNearestBytes(bytes, l[2][1], UnitPlace(l[2][2]))

\* the text gives no byte count: there is no line with the bytes
TextYieldsNoBytes == OutputBytes = NoLine

\* the transfer count the text gives, 0 if it gives none
TextTransfers == IF OutputCount = CountLine THEN 5 ELSE 0

\* C16 as stated: each of the transfer count and the byte count comes from the first
\* of the structured line and the text that gives it; a field that the structured line
\* lacks comes from the text.
C16_FirstNonEmptyPerField ==
    (SyncReturned /\ OutputJson \in StructuredJson) =>
       LET yield == StructuredYield(OutputJson)
       IN  /\ syncResult.files_transferred =
                 (IF "transfers" \in DOMAIN yield THEN yield.transfers ELSE TextTransfers)
           /\ "bytes" \in DOMAIN yield => syncResult.bytes_transferred = yield.bytes
           /\ ("bytes" \notin DOMAIN yield /\ OutputBytes # NoLine) =>
                 TextYieldsBytes(syncResult.bytes_transferred)

\* C16, amended: the two textual patterns are combined per field when no structured
\* line parses: the transfer count comes from its pattern and the byte count from its
\* own, each 0 without a match, whether or not the other matches.  A structured line
\* that parses wins entirely: a field it lacks is reported as 0 and no textual match
\* supplies it.
C16_PerFieldAmongTextOnly ==
    SyncReturned =>
       /\ OutputJson \notin StructuredJson =>
             /\ syncResult.files_transferred = TextTransfers
             /\ TextYieldsNoBytes => syncResult.bytes_transferred = 0
             /\ OutputBytes \in {l[1] : l \in QuantityLines} =>
                   TextYieldsBytes(syncResult.bytes_transferred)
       /\ OutputJson \in StructuredJson =>
             LET yield == StructuredYield(OutputJson)
             IN  /\ "transfers" \notin DOMAIN yield => syncResult.files_transferred = 0
                 /\ "bytes" \notin DOMAIN yield => syncResult.bytes_transferred = 0

\* the structured line has the transfer count only and the text has both: the byte count
\* is 0
C16_Witness ==
    /\ SyncReturned
    /\ combinedOutput = Compose(JsonLacksBytes, ByteLine(<< <<"1",".","5">>, <<"K","i","B">> >>, <<" ">>), CountLine)
    /\ syncResult = [files_transferred |-> 3, bytes_transferred |-> 0]

----------------------------------------------------------------------------
(* C17 *)

\* C17: when a line of the output is a structured progress line that parses, the
\* transfer count and the byte count are those of that line (0 for one it does not
\* have), whatever the text holds; when there is none, as when the line is cut short,
\* the transfer count is that of the textual count pattern, the byte count that of the
\* textual byte pattern, and each is 0 if its pattern does not match.
C17_StructuredShadowsText ==
    SyncReturned =>
       IF OutputJson \in StructuredJson
       THEN LET yield == StructuredYield(OutputJson)
            IN  syncResult =
                   [ files_transferred |->
                        IF "transfers" \in DOMAIN yield THEN yield.transfers ELSE 0,
                     bytes_transferred |->
                        IF "bytes" \in DOMAIN yield THEN yield.bytes ELSE 0 ]
       ELSE /\ OutputCount = CountLine => syncResult.files_transferred = 5
            /\ OutputCount \in {NoLine, CountLineNoPercent} =>
                  syncResult.files_transferred = 0
            /\ OutputBytes = NoLine => syncResult.bytes_transferred = 0
            /\ \A l \in QuantityLines :
                  OutputBytes = l[1] =>
                     IsNearestBytes(syncResult.bytes_transferred, l[2][1], UnitPlace(l[2][2]))

\* the structured line shadows a text that has other numbers
C17_Witness ==
    /\ SyncReturned
    /\ combinedOutput = Compose(JsonBoth, ByteLine(<< <<"1",".","5">>, <<"K","i","B">> >>, <<" ">>), CountLine)
    /\ syncResult = [files_transferred |-> 3, bytes_transferred |-> 2048]

----------------------------------------------------------------------------
(* C18 *)

\* a dry run has exited after its Partition Stage was entered
DryPartitionDone == pc = "exited" /\ DryRunLoaded /\ PartitionCalls # <<>>

ListingCalls == SelectSeq(calls, LAMBDA c : c.op = "getFiles")

BucketChecksReturned ==
    \A k \in 1..Len(calls) : calls[k].op = "bucket.exists" => calls[k].ok

\* C18 as stated: in a dry run, if the staging bucket does not exist the Partition Stage
\* returns all-zero counters, without raising and without listing; if the staging bucket
\* exists and the destination bucket does not, it lists staging and returns
\* files_processed = the number of retained objects.
C18_DryRunBucketsAsStated ==
    DryPartitionDone =>
       /\ ~stagingBucketExists =>
             /\ reorganizeResult = Result(0, 0, 0, 0)
             /\ ListingCalls = <<>>
       /\ (stagingBucketExists /\ ~hiveBucketExists) =>
             /\ ListingCalls # <<>>
             /\ reorganizeResult # NoResult
             /\ reorganizeResult.files_processed = Len(Retained)

\* C18, amended: as C18 when the two existence checks return, and in the second case
\* when the listing returns; no bucket is listed when the staging bucket does not exist,
\* and when an existence check or the listing fails the stage raises and returns no
\* counters.
C18_DryRunBucketHandling ==
    DryPartitionDone =>
       /\ ~stagingBucketExists =>
             /\ ListingCalls = <<>>
             /\ BucketChecksReturned => reorganizeResult = Result(0, 0, 0, 0)
       /\ (stagingBucketExists /\ ~hiveBucketExists /\ BucketChecksReturned) =>
             /\ Len(ListingCalls) = 1
             /\ ListingCalls[1].ok =>
                   /\ reorganizeResult = Result(Len(Retained), 0, 0, 0)
                   /\ Len(Retained) =
                         Cardinality({key \in staging : Eligible(key, config, clock)})
       /\ HardFailure => (reorganizeResult = NoResult /\ exitCode = 1)

\* the destination bucket is missing and the dry run reports the two retained objects
C18_Witness ==
    /\ DryPartitionDone
    /\ stagingBucketExists
    /\ ~hiveBucketExists
    /\ Len(listed) = 3
    /\ reorganizeResult = Result(2, 0, 0, 0)
    /\ exitCode = 0

----------------------------------------------------------------------------
(* C19 *)

LiveLoaded == config # NoConfig /\ ~config.dryRun

\* the calls made on the objects of the buckets: the listing, the existence checks of
\* destination objects and the copies
ObjectCalls == SelectSeq(calls, LAMBDA c : c.op \in {"getFiles", "file.exists", "file.copy"})

\* the calls made on the buckets themselves
BucketCalls == SelectSeq(calls, LAMBDA c : c.op \in {"bucket.exists", "createBucket"})

\* the number of calls before the first call on an object (all of them if there is none)
BeforeObjects ==
    LET firsts == {k \in 1..Len(calls) :
                     calls[k].op \in {"getFiles", "file.exists", "file.copy"}}
    IN  IF firsts = {} THEN Len(calls)
        ELSE (CHOOSE k \in firsts : \A j \in firsts : k <= j) - 1

\* C19: in a live run, when the first listing, existence check or copy is issued both
\* buckets exist, each having been checked, and created if it was absent, before it; if
\* a bucket existence check or a bucket creation fails the stage raises: it returns no
\* statistics, the process exits with status 1 and nothing is listed or copied.
C19_LiveBucketEnsureFatal ==
    LiveLoaded =>
       /\ ObjectCalls # <<>> =>
             /\ stagingBucketExists /\ hiveBucketExists
             /\ \A bucket \in {"staging", "hive"} :
                   \E k \in 1..BeforeObjects :
                      calls[k] = Call("bucket.exists", bucket, <<>>, <<>>, TRUE)
             /\ \A k \in 1..Len(BucketCalls) : BucketCalls[k].ok
             /\ \A k \in (BeforeObjects + 1)..Len(calls) :
                   calls[k].op \notin {"bucket.exists", "createBucket"}
       /\ pc \in {"getFiles", "loop"} => (stagingBucketExists /\ hiveBucketExists)
       /\ (\E k \in 1..Len(BucketCalls) : ~BucketCalls[k].ok) =>
             /\ pc = "exited"
             /\ exitCode = 1
             /\ reorganizeResult = NoResult
             /\ statistics = NoResult
             /\ ObjectCalls = <<>>
             /\ \A path \in DOMAIN hive : hive[path].run # runs

\* the staging bucket exists, the creation of the destination bucket fails
C19_Witness ==
    /\ LiveLoaded
    /\ pc = "exited"
    /\ staging # {}
    /\ ~hiveBucketExists
    /\ calls[Len(calls)] = Call("createBucket", "hive", <<>>, <<>>, FALSE)
    /\ reorganizeResult = NoResult
    /\ exitCode = 1

----------------------------------------------------------------------------
(* C20 *)

\* the destination keys that hold a part of an object, left by a run that was killed
PartialKeys == {path \in DOMAIN hive : ~hive[path].complete}

\* the staged keys this execution found at the destination: the existence check
\* returned and no copy followed it
SkippedKeys ==
    {calls[k].src : k \in {j \in 1..Len(calls) :
                             /\ calls[j].op = "file.exists"
                             /\ calls[j].ok
                             /\ (j = Len(calls) \/ calls[j + 1].op # "file.copy")}}

\* a live Partition Stage returned in an execution later than the one that left path
LaterRunReturned(path) == LiveRunReturned /\ hive[path].run < runs

\* C20 as stated: every later Partition Stage run finds the key of a partial object
\* existing, counts the object as skipped and never copies it again.
C20_EveryLaterRunSkips ==
    \A path \in PartialKeys :
       LaterRunReturned(path) =>
          /\ hive[path].from \in SkippedKeys
          /\ reorganizeResult.files_skipped = Cardinality(SkippedKeys)
          /\ \A k \in 1..Len(CopyCalls) : CopyCalls[k].dst # path

\* C20, amended: no later run copies to the key of a partial object and no step changes
\* the partial object; every later live run that retains the staged object checks the
\* key, and counts the object as skipped whenever the existence check returns (as
\* errored when the check fails).
C20_InterruptedCopyGap ==
    /\ [](\A path \in PartialKeys :
             /\ hive[path].run < runs =>
                   \A k \in 1..Len(CopyCalls) : CopyCalls[k].dst # path
             /\ (LaterRunReturned(path) /\ hive[path].from \in Range(Retained)) =>
                   /\ hive[path].from \in Range(Attempted)
                   /\ hive[path].from \in SkippedKeys \cup Failed
                   /\ reorganizeResult.files_skipped = Cardinality(SkippedKeys))
    /\ [][\A path \in PartialKeys :
             /\ path \in DOMAIN hive'
             /\ hive'[path] = hive[path]
             /\ Written(path)' = Written(path)]_vars

\* the first run was killed and left a part of KeyBoundary; the second run skipped it
C20_Witness ==
    /\ LiveRunReturned
    /\ runs = 2
    /\ HivePathBoundary \in PartialKeys
    /\ hive[HivePathBoundary].run = 1
    /\ KeyBoundary \in SkippedKeys
    /\ reorganizeResult = Result(2, 1, 1, 0)

----------------------------------------------------------------------------
(* C21 *)

\* the number of retained objects the loop of this execution has handled so far: those
\* an existence check was made for, less the one whose iteration a kill cut short
Handled == IF pc = "killed" THEN Len(Attempted) - 1 ELSE Len(Attempted)

Accounted == filesCopied + filesSkipped + filesErrored

\* C21: in a live run of the Partition Stage, after each iteration of the loop
\* filesCopied + filesSkipped + filesErrored is the number of retained objects handled so
\* far and errors has filesErrored entries; each iteration adds one to exactly one of the
\* three counters; and the result the stage returns has files_copied + files_skipped +
\* files_errored = files_processed.
C21_AccountingInvariant ==
    /\ [](/\ Accounted = Handled
          /\ Len(errors) = filesErrored
          /\ pc = "loop" => Handled = i
          /\ LiveRunReturned =>
                /\ Handled = Len(Retained)
                /\ reorganizeResult.files_processed = Len(Retained)
                /\ reorganizeResult.files_copied + reorganizeResult.files_skipped
                      + reorganizeResult.files_errored = reorganizeResult.files_processed)
    /\ [][Handled' = Handled + 1 =>
             \E counted \in {<<1, 0, 0>>, <<0, 1, 0>>, <<0, 0, 1>>} :
                << filesCopied' - filesCopied, filesSkipped' - filesSkipped,
                   filesErrored' - filesErrored >> = counted]_vars

\* a live run returned after it copied one object, skipped one and failed on one
C21_Witness ==
    /\ LiveRunReturned
    /\ reorganizeResult = Result(3, 1, 1, 1)
    /\ Len(errors) = 1
    /\ Handled = 3

----------------------------------------------------------------------------
(* C22 *)

\* the destination objects that were there before this execution, and those it wrote
InitialObjects == {path \in DOMAIN hive : hive[path].run < runs}
NewObjects == {path \in DOMAIN hive : hive[path].run = runs}

\* C22: two distinct staged keys that both have the structure have distinct partitioned
\* keys; within one run no two retained objects are checked or copied at the same
\* destination key; and a live run that returns without errors, from a destination that
\* held none of the partitioned keys of its retained objects, has files_copied equal to
\* the number of destination objects it added.
C22_PartitionKeyInjectivity ==
    /\ \A a, b \in staging :
          (a # b /\ StagedKeyPattern(a) /\ StagedKeyPattern(b)) =>
             buildHivePath(parseFilePath(a)) # buildHivePath(parseFilePath(b))
    /\ \A c, d \in Range(FileCalls) : c.src # d.src => c.dst # d.dst
    /\ \A a, b \in 1..Len(parsedFiles) :
          a # b => buildHivePath(parsedFiles[a]) # buildHivePath(parsedFiles[b])
    /\ ( /\ LiveRunReturned
         /\ reorganizeResult.files_errored = 0
         /\ \A key \in Range(Retained) : PartitionedKey(key) \notin InitialObjects )
       => /\ reorganizeResult.files_copied = Cardinality(NewObjects)
          /\ reorganizeResult.files_copied = Len(Retained)

\* a live run in full mode copied three objects of which two are of the same day, two
\* of the same name and one in a folder below the day, to three new destination keys
C22_Witness ==
    /\ LiveRunReturned
    /\ Range(Retained) = {KeyOld, KeyBoundary, KeyNested}
    /\ reorganizeResult = Result(3, 3, 0, 0)
    /\ InitialObjects = {}
    /\ Cardinality(NewObjects) = 3

----------------------------------------------------------------------------
(* C23 *)

\* C23: in a live run of the Partition Stage a progress report is emitted each time the
\* number of objects handled reaches a multiple of 100, whether the object at that
\* position was copied, skipped or errored: the reports so far are those of 100, 200, ...
\* up to the number of objects handled.
C23_ProgressEveryHundred ==
    progress = [k \in 1..(Handled \div 100) |-> 100 * k]

====
